---- MODULE Spec2Model ----
(***************************************************************************)
(* EcoShop: cart store and checkout workflow (orders/views.py,             *)
(* orders/models.py, products/models.py, accounts/models.py).              *)
(*                                                                         *)
(* Money is kept in integers.  Stored DecimalField(decimal_places=2)       *)
(* values are in cents; the unsaved Order instance built by checkout_view  *)
(* holds exact Decimal products, kept here in hundredths of a cent (E4).   *)
(* co2_saved is kept in hundredths of a kg.                                *)
(*                                                                         *)
(* cart requests (add_to_cart, update_cart, remove_from_cart) are single   *)
(* steps.  checkout_view is a multi-step request: its read of the cart     *)
(* (before the transaction) and its transaction are separate steps, so two *)
(* checkouts may both read before either writes.  The body of              *)
(* transaction.atomic() is isolated: while one transaction is open no      *)
(* other request touches the database, and a failure restores the journal. *)
(*                                                                         *)
(* get_or_create_cart is a lookup followed by an insert; inside the cart   *)
(* and checkout steps it runs whole, and get_cart / create_cart are the    *)
(* same two statements as separate steps of overlapping first visits.      *)
(* The staff views (accounts/views.py) and the order pages of the admin    *)
(* console (orders/admin.py) are single steps.  mailed holds the           *)
(* notifications handed to a mail thread.                                  *)
(***************************************************************************)
EXTENDS Integers, Sequences, FiniteSets, TLC

\* ---------------------------------------------------------------- bounds
MaxStock == 2
MaxQty == 2
MaxOrders == 2
MaxPrice == 5100

\* ------------------------------------------------------- program constants
TaxRate == 13
FreeShippingThreshold == 5000
FlatShippingFee == 500

Users == {"u1", "u2"}
Reqs == {1, 2}
Products == {"A", "B"}
OrderNumbers == {"ECO-1", "ECO-2"}
\* int(request.POST.get('quantity', 1)): the quantities submitted
QtyInputs == 1 .. MaxQty
\* the same field when the caller may post any integer: 0 and negative too
AnyQtyInputs == (0 - MaxQty) .. MaxQty
ItemIds == Users \X Products \X {0, 1}

\* User.role; the staff accounts are not customers of the shop here
Staff == {"admin", "supervisor"}
Actors == Users \cup Staff
Role == [a \in Actors |-> IF a \in Staff THEN a ELSE "customer"]

\* session keys of anonymous visitors; a cart belongs to a user or to a key
SessionKeys == {"s1", "s2"}
Identities == Users \cup SessionKeys

\* Order.STATUS_CHOICES
Statuses == {"pending", "processing", "shipped", "delivered", "cancelled"}

\* two rows of the seed catalogue: (price in cents, eco_score)
SeedPrice == [p \in Products |-> IF p = "A" THEN 1299 ELSE 2499]
SeedEcoScore == [p \in Products |-> IF p = "A" THEN 95 ELSE 94]
SeedName == [p \in Products |-> IF p = "A" THEN "Bamboo Toothbrush Set"
                                ELSE "Beeswax Food Wraps"]

VARIABLES db, req, txOwner, journal, mailed, resp

vars == <<db, req, txOwner, journal, mailed, resp>>

NoTx == 0

\* ------------------------------------------------------------ model rows
User0 == [eco_points |-> 0, total_orders |-> 0, co2_saved |-> 0]

NoOrder == [order_number |-> "", subtotal |-> 0, tax |-> 0, shipping_cost |-> 0,
            total |-> 0, eco_points_earned |-> 0, co2_saved |-> 0]

\* ------------------------------------------------------------ Cart model
\* Cart rows are [id, user, session_key], one of user and session_key null
\* (""); neither column is unique.  A CartItem names its cart by the identity
\* that owns it: a view reaches cart items only through get_or_create_cart,
\* which returns a cart only while the identity has exactly one.
NoIdentity == ""

\* Cart.objects.filter(user=...) / filter(session_key=...)
CartsOf(d, ident) == {c \in d.Cart : c.user = ident \/ c.session_key = ident}

\* the row Cart.objects.create(...) inserts, whatever rows exist already
NewCart(d, ident) ==
    [id |-> <<ident, Cardinality(CartsOf(d, ident))>>,
     user |-> IF ident \in Users THEN ident ELSE NoIdentity,
     session_key |-> IF ident \in SessionKeys THEN ident ELSE NoIdentity]

\* get() finds more than one row: MultipleObjectsReturned
MultipleCarts(d, ident) == Cardinality(CartsOf(d, ident)) > 1

\* get_or_create_cart run without interruption: the database after it
get_or_create_cart(d, ident) ==
    IF CartsOf(d, ident) = {}
    THEN [d EXCEPT !.Cart = @ \cup {NewCart(d, ident)}]
    ELSE d

\* cart.items.all(): the CartItem rows of one cart
CartRows(d, u) == {ci \in d.CartItem : ci.cart = u}

\* CartItem.subtotal: live product price * quantity (cents)
CartItemSubtotal(d, ci) == d.Product[ci.product].price * ci.quantity

RECURSIVE SumSubtotal(_, _)
SumSubtotal(d, rows) ==
    IF rows = {} THEN 0
    ELSE LET ci == CHOOSE x \in rows : TRUE
         IN CartItemSubtotal(d, ci) + SumSubtotal(d, rows \ {ci})

\* Cart.total_price (cents)
total_price(d, u) == SumSubtotal(d, CartRows(d, u))

CartItemEcoPoints(d, ci) == d.Product[ci.product].eco_score * ci.quantity

RECURSIVE SumEcoPoints(_, _)
SumEcoPoints(d, rows) ==
    IF rows = {} THEN 0
    ELSE LET ci == CHOOSE x \in rows : TRUE
         IN CartItemEcoPoints(d, ci) + SumEcoPoints(d, rows \ {ci})

\* Cart.total_eco_points
total_eco_points(d, u) == SumEcoPoints(d, CartRows(d, u))

\* rows of a cart in a fixed order (by product, then key), each joined with
\* its product (cart.items.all().select_related('product'), evaluated once)
ProductRank(p) == IF p = "A" THEN 1 ELSE 2

RowRank(ci) == 10 * ProductRank(ci.product) + ci.id[3]

RECURSIVE RowsById(_, _)
RowsById(d, rows) ==
    IF rows = {} THEN << >>
    ELSE LET ci == CHOOSE x \in rows :
                     \A y \in rows : RowRank(x) < RowRank(y) \/ x = y
         IN <<[id |-> ci.id, pid |-> ci.product, quantity |-> ci.quantity,
               product |-> d.Product[ci.product]]>>
            \o RowsById(d, rows \ {ci})

cart_items(d, u) == RowsById(d, CartRows(d, u))

\* ------------------------------------------------------- decimal storage
\* a save that drops the digits after the cent instead of rounding
Quantize_Truncate(v) == v \div 100

\* DecimalField(max_digits=10, decimal_places=2) on save: the E4 value is
\* quantized to cents, ties to the even cent (the decimal context default).
Quantize(v) ==
    LET q == v \div 100
        r == v % 100
    IN IF r < 50 THEN q
       ELSE IF r > 50 THEN q + 1
       ELSE IF q % 2 = 0 THEN q ELSE q + 1

\* ------------------------------------------------------------------ Init
\* the stock at the start: product A is the scarce one, a single unit
InitStock == [p \in Products |-> IF p = "A" THEN 1 ELSE MaxStock]

Product0 == [p \in Products |->
               [name |-> SeedName[p], stock |-> InitStock[p],
                price |-> SeedPrice[p], eco_score |-> SeedEcoScore[p],
                is_active |-> TRUE]]

Req0 == [pc |-> "idle", user |-> "u1", cart_items |-> << >>,
         request_user |-> User0, order |-> NoOrder, idx |-> 1,
         overlapped |-> FALSE, pre |-> << >>]

NoResp == [view |-> "", msg |-> "", order_number |-> ""]

\* the tables: the catalogue and the accounts, no cart and no order yet
Db0(products) ==
    [Product |-> products,
     Cart |-> {},
     CartItem |-> {},
     Order |-> {},
     OrderItem |-> {},
     User |-> [u \in Users |-> User0],
     next_order_id |-> 1]

InitWith(products) ==
    /\ db = Db0(products)
    /\ req = [r \in Reqs |-> Req0]
    /\ txOwner = NoTx
    /\ journal = << >>
    /\ mailed = {}
    /\ resp = NoResp

Init == InitWith(Product0)

\* --------------------------------------------------------------- requests
\* a checkout request is in progress
Active(r) == req[r].pc # "idle"

\* every step of one request marks the other requests in progress as
\* overlapped (bookkeeping for the properties about non-overlapping runs)
Disturb(self) ==
    [x \in Reqs |-> IF x # self /\ Active(x)
                    THEN [req[x] EXCEPT !.overlapped = TRUE, !.pre = << >>]
                    ELSE req[x]]

Response(v, m) == [view |-> v, msg |-> m, order_number |-> ""]

\* redirect('orders:order_confirmation', order_number=order.order_number)
Confirmation(number) ==
    [view |-> "checkout", msg |-> "ok", order_number |-> number]

\* CartItem.objects.get_or_create(cart=cart, product=product): the rows found
ExistingItems(d, u, p) == {ci \in CartRows(d, u) : ci.product = p}

\* a check that only asks whether any stock is left
OutOfStock_AnyLeft(product, quantity) == product.stock < 1

\* add_to_cart: the stock check
OutOfStock(product, quantity) == product.stock < quantity

\* add_to_cart: get_or_create, then quantity += quantity on an existing row
\* the primary key of a new CartItem row: a value no row has.  Keys are
\* <<cart, product, k>>, k counting the rows that (cart, product) already has.
NewCartItemId(d, u, p) == <<u, p, Cardinality(ExistingItems(d, u, p))>>

\* objects.create instead of get_or_create: a new row on every add
AddOrUpdate_AlwaysCreate(d, u, p, quantity) ==
    [d EXCEPT !.CartItem = @ \cup {[id |-> NewCartItemId(d, u, p), cart |-> u,
                                    product |-> p, quantity |-> quantity]}]

AddOrUpdate(d, u, p, quantity) ==
    LET found == ExistingItems(d, u, p)
    IN IF found = {}
       THEN [d EXCEPT !.CartItem = @ \cup {[id |-> NewCartItemId(d, u, p), cart |-> u,
                                            product |-> p, quantity |-> quantity]}]
       ELSE [d EXCEPT !.CartItem =
                 {IF ci \in found THEN [ci EXCEPT !.quantity = @ + quantity] ELSE ci
                  : ci \in @}]

\* Product.objects.filter(id=..., is_active=True).exists()
ActiveProduct(d, p) == p \in DOMAIN d.Product /\ d.Product[p].is_active

add_to_cart(u, p, quantity) ==
    /\ txOwner = NoTx
    /\ LET product == db.Product[p]
           found == ExistingItems(db, u, p)
       IN IF ~ActiveProduct(db, p)
          THEN /\ db' = db
               /\ resp' = Response("add_to_cart", "404")
          ELSE IF MultipleCarts(db, u)
          THEN /\ db' = db
               /\ resp' = Response("add_to_cart", "500")
          ELSE IF OutOfStock(product, quantity)
          THEN /\ db' = get_or_create_cart(db, u)
               /\ resp' = Response("add_to_cart", "out_of_stock")
          ELSE /\ \A ci \in found : /\ ci.quantity + quantity <= MaxQty
                                     /\ ci.quantity + quantity >= 0 - MaxQty
               /\ db' = AddOrUpdate(get_or_create_cart(db, u), u, p, quantity)
               /\ resp' = Response("add_to_cart",
                                   IF found = {} THEN "added" ELSE "updated")
    /\ req' = Disturb(0)
    /\ UNCHANGED <<txOwner, journal, mailed>>

\* update_cart, action == 'increase'
\* the comparison off by one: a line already at the stock level grows
BelowStock_OrEqual(d, ci) == d.Product[ci.product].stock >= ci.quantity

\* update_cart: cart_item.product.stock > cart_item.quantity
BelowStock(d, ci) == d.Product[ci.product].stock > ci.quantity

Increase(d, ci) ==
    IF BelowStock(d, ci)
    THEN [d EXCEPT !.CartItem = (@ \ {ci}) \cup {[ci EXCEPT !.quantity = @ + 1]}]
    ELSE d

\* update_cart, action == 'decrease'
Decrease(d, ci) ==
    IF ci.quantity > 1
    THEN [d EXCEPT !.CartItem = (@ \ {ci}) \cup {[ci EXCEPT !.quantity = @ - 1]}]
    ELSE [d EXCEPT !.CartItem = @ \ {ci}]

\* (the view raises, and writes nothing, when get_or_create_cart finds
\* several carts or when the cart has no item with this id)
update_cart(u, item_id, action) ==
    /\ txOwner = NoTx
    /\ ~MultipleCarts(db, u)
    /\ \E ci \in CartRows(db, u) :
          /\ ci.id = item_id
          /\ IF action = "increase"
             THEN /\ db' = Increase(db, ci)
                  /\ resp' = Response("update_cart",
                                IF BelowStock(db, ci) THEN "updated" ELSE "max_stock")
             ELSE /\ db' = Decrease(db, ci)
                  /\ resp' = Response("update_cart",
                                IF ci.quantity > 1 THEN "updated" ELSE "removed")
    /\ req' = Disturb(0)
    /\ UNCHANGED <<txOwner, journal, mailed>>

remove_from_cart(u, item_id) ==
    /\ txOwner = NoTx
    /\ ~MultipleCarts(db, u)
    /\ \E ci \in CartRows(db, u) :
          /\ ci.id = item_id
          /\ db' = [db EXCEPT !.CartItem = @ \ {ci}]
    /\ resp' = Response("remove_from_cart", "removed")
    /\ req' = Disturb(0)
    /\ UNCHANGED <<txOwner, journal, mailed>>

\* ---------------------------------------------------------- checkout_view
\* a check that stops at the first cart line
StockAvailable_FirstOnly(items) ==
    ~(items[1].product.stock < items[1].quantity)

\* "Check stock availability": no cached line asks for more than its stock
StockAvailable(items) ==
    \A i \in 1 .. Len(items) : ~(items[i].product.stock < items[i].quantity)

\* the lowest free request slot takes the next request
FreeSlot(r) ==
    /\ req[r].pc = "idle"
    /\ \A x \in Reqs : req[x].pc = "idle" => ~(x < r)

\* a form that accepts every submission
is_valid_Always(form) == TRUE

\* request.method == 'POST' and form.is_valid(): CheckoutForm is a ModelForm
\* over the shipping fields of Order; "invalid" stands for a GET and for a
\* POST with a required shipping field missing or malformed
is_valid(form) == form = "valid"

\* get the cart, evaluate cart_items, check stock, validate the form.
\* form is "valid" (a POST that validates) or "invalid" (a GET, or a POST
\* that does not validate: the page is rendered).
checkout_begin(r, u, form) ==
    /\ FreeSlot(r)
    /\ txOwner = NoTx
    /\ ~MultipleCarts(db, u)
    /\ LET items == cart_items(db, u)
           busy == \E x \in Reqs \ {r} : Active(x)
           me == [pc |-> "atomic", user |-> u, cart_items |-> items,
                  request_user |-> db.User[u], order |-> NoOrder, idx |-> 1,
                  overlapped |-> busy,
                  pre |-> IF busy THEN << >> ELSE <<db>>]
           msg == IF items = << >> THEN "empty"
                  ELSE IF ~StockAvailable(items) THEN "out_of_stock"
                  ELSE IF ~is_valid(form) THEN "form"
                  ELSE ""
       IN /\ req' = [Disturb(r) EXCEPT ![r] = IF msg = "" THEN me ELSE Req0]
          /\ resp' = IF msg = "" THEN resp ELSE Response("checkout", msg)
    /\ db' = get_or_create_cart(db, u)
    /\ UNCHANGED <<txOwner, journal, mailed>>

\* the threshold compared with <= : 50.00 itself pays the fee
ShippingCost_Inclusive(price) ==
    IF price <= FreeShippingThreshold THEN FlatShippingFee ELSE 0

\* shipping_cost: Decimal('5.00') if cart.total_price < 50 else Decimal('0.00')
ShippingCost(price) ==
    IF price < FreeShippingThreshold THEN FlatShippingFee ELSE 0

\* the unsaved Order built inside transaction.atomic() (E4 units), from the
\* live cart: each cart.total_price / cart.total_eco_points is a fresh query
BuildOrder(d, u, number) ==
    LET subtotal == 100 * total_price(d, u)
        tax == TaxRate * total_price(d, u)
        shipping_cost == 100 * ShippingCost(total_price(d, u))
    IN [order_number |-> number,
        subtotal |-> subtotal,
        tax |-> tax,
        shipping_cost |-> shipping_cost,
        total |-> subtotal + tax + shipping_cost,
        eco_points_earned |-> total_eco_points(d, u),
        co2_saved |-> total_eco_points(d, u)]

\* the Order row as order.save() stores it (cents)
OrderRow(d, u, order) ==
    [id |-> d.next_order_id,
     order_number |-> order.order_number,
     user |-> u,
     status |-> "pending",
     subtotal |-> Quantize(order.subtotal),
     tax |-> Quantize(order.tax),
     shipping_cost |-> Quantize(order.shipping_cost),
     total |-> Quantize(order.total),
     eco_points_earned |-> order.eco_points_earned,
     co2_saved |-> order.co2_saved]

\* with transaction.atomic(): ... order fields computed
atomic_enter(r, number) ==
    /\ req[r].pc = "atomic"
    /\ txOwner = NoTx
    /\ db.next_order_id <= MaxOrders
    /\ txOwner' = r
    /\ journal' = <<db>>
    /\ req' = [Disturb(r) EXCEPT ![r].pc = "order_save",
                                 ![r].order = BuildOrder(db, req[r].user, number)]
    /\ UNCHANGED <<db, mailed, resp>>

\* the writes made without a transaction: an exception leaves them in place
Rollback_NoAtomic(r) ==
    /\ db' = db
    /\ journal' = << >>
    /\ txOwner' = NoTx
    /\ req' = [Disturb(r) EXCEPT ![r] = Req0]
    /\ resp' = Response("checkout", "error")

\* leaving the atomic block on an exception: every write is undone
Rollback(r) ==
    /\ db' = journal[1]
    /\ journal' = << >>
    /\ txOwner' = NoTx
    /\ req' = [Disturb(r) EXCEPT ![r] = Req0]
    /\ resp' = Response("checkout", "error")

\* the IntegrityError of order.save() leaves the atomic block the same way
IntegrityError(r) ==
    /\ db' = journal[1]
    /\ journal' = << >>
    /\ txOwner' = NoTx
    /\ req' = [Disturb(r) EXCEPT ![r] = Req0]
    /\ resp' = Response("checkout", "integrity_error")

\* order_number without unique=True: no insert is ever refused
DuplicateNumber_Never(d, number) == FALSE

\* order_number = models.CharField(max_length=20, unique=True): the insert
\* raises IntegrityError when a row already has the number
DuplicateNumber(d, number) == \E o \in d.Order : o.order_number = number

\* order.save(); order_number is unique
order_save(r) ==
    /\ req[r].pc = "order_save"
    /\ txOwner = r
    /\ IF DuplicateNumber(db, req[r].order.order_number)
       THEN IntegrityError(r)
       ELSE /\ db' = [db EXCEPT !.Order = @ \cup {OrderRow(db, req[r].user, req[r].order)},
                                !.next_order_id = @ + 1]
            /\ req' = [Disturb(r) EXCEPT ![r].pc = "item_create", ![r].idx = 1]
            /\ UNCHANGED <<txOwner, journal, resp>>
    /\ UNCHANGED mailed

\* the order's primary key, set by order.save()
OrderId(r) == journal[1].next_order_id

\* OrderItem.objects.create(...) from the cached cart line; the key of the
\* row is the order's key and the position of the line.  The insert fails on
\* the foreign key when the product row is gone (at the insert or, where the
\* constraint is deferred, at commit: the transaction is rolled back).
OrderItemRow(order_id, idx, item) ==
    [id |-> <<order_id, idx>>,
     order |-> order_id,
     product |-> item.pid,
     product_name |-> item.product.name,
     product_price |-> item.product.price,
     quantity |-> item.quantity,
     eco_score |-> item.product.eco_score]

order_item_create(r) ==
    /\ req[r].pc = "item_create"
    /\ txOwner = r
    /\ LET item == req[r].cart_items[req[r].idx]
       IN IF item.pid \notin DOMAIN db.Product
          THEN Rollback(r)
          ELSE /\ db' = [db EXCEPT !.OrderItem =
                             @ \cup {OrderItemRow(OrderId(r), req[r].idx, item)}]
               /\ req' = [Disturb(r) EXCEPT ![r].pc = "product_save"]
               /\ UNCHANGED <<txOwner, journal, resp>>
    /\ UNCHANGED mailed

\* a decrement by one unit whatever the quantity of the line
SavedProduct_OneUnit(item) == [item.product EXCEPT !.stock = @ - 1]

\* product.stock -= cart_item.quantity; product.save() writes the cached
\* instance, every field of it
SavedProduct(item) == [item.product EXCEPT !.stock = @ - item.quantity]

product_save(r) ==
    /\ req[r].pc = "product_save"
    /\ txOwner = r
    /\ LET item == req[r].cart_items[req[r].idx]
       IN db' = [db EXCEPT !.Product[item.pid] = SavedProduct(item)]
    /\ req' = [Disturb(r) EXCEPT
                  ![r].pc = IF req[r].idx < Len(req[r].cart_items)
                            THEN "item_create" ELSE "user_save",
                  ![r].idx = @ + 1]
    /\ UNCHANGED <<txOwner, journal, mailed, resp>>

\* the points assigned instead of added
SavedUser_Assign(user, order) ==
    [eco_points |-> order.eco_points_earned,
     total_orders |-> user.total_orders + 1,
     co2_saved |-> user.co2_saved + order.co2_saved]

\* user.eco_points += ...; user.total_orders += 1; user.co2_saved += ...
\* on request.user as loaded at the start of the request; user.save()
SavedUser(user, order) ==
    [eco_points |-> user.eco_points + order.eco_points_earned,
     total_orders |-> user.total_orders + 1,
     co2_saved |-> user.co2_saved + order.co2_saved]

user_save(r) ==
    /\ req[r].pc = "user_save"
    /\ txOwner = r
    /\ db' = [db EXCEPT !.User[req[r].user] =
                  SavedUser(req[r].request_user, req[r].order)]
    /\ req' = [Disturb(r) EXCEPT ![r].pc = "cart_clear"]
    /\ UNCHANGED <<txOwner, journal, mailed, resp>>

\* cart.items.all().delete()
ClearCart(d, u) == [d EXCEPT !.CartItem = @ \ CartRows(d, u)]

cart_clear(r) ==
    /\ req[r].pc = "cart_clear"
    /\ txOwner = r
    /\ db' = ClearCart(db, req[r].user)
    /\ req' = [Disturb(r) EXCEPT ![r].pc = "email"]
    /\ UNCHANGED <<txOwner, journal, mailed, resp>>

\* a notification handed to the mail thread (email_thread.start())
Mail(kind, number) == [kind |-> kind, order_number |-> number]

\* try: send_order_confirmation_email(order) except Exception: print(...)
\* the mail thread is started for the order
send_order_confirmation_email(r) ==
    /\ req[r].pc = "email"
    /\ txOwner = r
    /\ mailed' = mailed \cup {Mail("confirmation", req[r].order.order_number)}
    /\ req' = [Disturb(r) EXCEPT ![r].pc = "commit"]
    /\ UNCHANGED <<db, txOwner, journal, resp>>

\* the failure raised out of the atomic block: the checkout is rolled back
email_fails_Raises(r) ==
    /\ req[r].pc = "email"
    /\ txOwner = r
    /\ Rollback(r)
    /\ UNCHANGED mailed

\* starting the mail thread raises: the except clause prints and the view
\* goes on (a failure of send_mail inside the thread is caught there)
email_fails(r) ==
    /\ req[r].pc = "email"
    /\ txOwner = r
    /\ req' = [Disturb(r) EXCEPT ![r].pc = "commit"]
    /\ UNCHANGED <<db, txOwner, journal, mailed, resp>>

\* return redirect(...) leaves the atomic block: commit
atomic_exit(r) ==
    /\ req[r].pc = "commit"
    /\ txOwner = r
    /\ txOwner' = NoTx
    /\ journal' = << >>
    /\ req' = [Disturb(r) EXCEPT ![r] = Req0]
    /\ resp' = Confirmation(req[r].order.order_number)
    /\ UNCHANGED <<db, mailed>>

\* a database error raised by one of the writes of the atomic block
WritePcs == {"order_save", "item_create", "product_save", "user_save",
             "cart_clear", "commit"}

write_fails(r) ==
    /\ req[r].pc \in WritePcs
    /\ txOwner = r
    /\ Rollback(r)
    /\ UNCHANGED mailed

\* ---------------------------------------------------- get_or_create_cart
\* cart_view by a request that others may overlap.  Cart.objects
\* .get_or_create is a get() and, when no row was found, a create(): the
\* two are separate statements, and no unique constraint makes the second
\* fail.  get_cart is the lookup, create_cart the insert after a miss.
get_cart(r, ident) ==
    /\ FreeSlot(r)
    /\ txOwner = NoTx
    /\ IF MultipleCarts(db, ident)
       THEN /\ req' = Disturb(r)
            /\ resp' = Response("cart_view", "500")
       ELSE IF CartsOf(db, ident) # {}
       THEN /\ req' = Disturb(r)
            /\ resp' = Response("cart_view", "cart")
       ELSE /\ req' = [Disturb(r) EXCEPT
                         ![r] = [Req0 EXCEPT !.pc = "cart_create", !.user = ident]]
            /\ resp' = resp
    /\ UNCHANGED <<db, txOwner, journal, mailed>>

create_cart(r) ==
    /\ req[r].pc = "cart_create"
    /\ txOwner = NoTx
    /\ db' = [db EXCEPT !.Cart = @ \cup {NewCart(db, req[r].user)}]
    /\ req' = [Disturb(r) EXCEPT ![r] = Req0]
    /\ resp' = Response("cart_view", "cart")
    /\ UNCHANGED <<txOwner, journal, mailed>>

\* ------------------------------------------------------------ staff views
\* @staff_required: request.user.is_staff_member()
IsStaffMember(actor) == Role[actor] \in {"admin", "supervisor"}

\* request.user.is_admin(); User.save() sets is_superuser for this role only
IsAdmin(actor) == Role[actor] = "admin"

\* the fields a product_management_edit POST carries.  stock is any integer
\* from -1 up; name, price and eco_score are the catalogue's or new ones.
StockInputs == (0 - 1) .. MaxStock
NewName == "Bamboo Toothbrush Duo"
NewPrice == 1499
NewEcoScore == 60

EditForms ==
    {[name |-> IF new THEN NewName ELSE SeedName["A"],
      price |-> IF new THEN NewPrice ELSE SeedPrice["A"],
      eco_score |-> IF new THEN NewEcoScore ELSE SeedEcoScore["A"],
      stock |-> st,
      is_active |-> act] : new \in BOOLEAN, st \in StockInputs, act \in BOOLEAN}

\* validators=[MinValueValidator(1), MaxValueValidator(100)] of
\* Product.eco_score: they run in full_clean() (a ModelForm, the admin
\* console), not in save()
EcoScoreMin == 1
EcoScoreMax == 100

\* the eco_score a product_management_edit POST may carry: int() of any
\* digits, here the two ends of the range and their outer neighbours
EcoScoreInputs == {EcoScoreMin - 1, EcoScoreMin, EcoScoreMax, EcoScoreMax + 1}

\* edit forms for product p that keep its name and price
ScoreForms(p) ==
    {[name |-> SeedName[p], price |-> SeedPrice[p], eco_score |-> e,
      stock |-> st, is_active |-> TRUE] : e \in EcoScoreInputs, st \in 0 .. MaxStock}

\* product.name = ...; product.price = Decimal(...); product.stock = int(...);
\* product.eco_score = int(...); product.is_active = ...; product.save()
EditedProduct(product, form) ==
    [product EXCEPT !.name = form.name, !.price = form.price,
                    !.stock = form.stock, !.eco_score = form.eco_score,
                    !.is_active = form.is_active]

product_management_edit(actor, p, form) ==
    /\ txOwner = NoTx
    /\ IF ~IsStaffMember(actor)
       THEN /\ db' = db
            /\ resp' = Response("product_management_edit", "denied")
       ELSE IF p \notin DOMAIN db.Product
       THEN /\ db' = db
            /\ resp' = Response("product_management_edit", "404")
       ELSE /\ db' = [db EXCEPT !.Product[p] = EditedProduct(@, form)]
            /\ resp' = Response("product_management_edit", "updated")
    /\ req' = Disturb(0)
    /\ UNCHANGED <<txOwner, journal, mailed>>

\* OrderItem.product is null
NoProduct == ""

\* product.delete() removing the order lines of the product with it
OrderItemsAfterDelete_Cascade(rows, p) == {oi \in rows : oi.product # p}

\* product.delete(): OrderItem.product is on_delete=SET_NULL
OrderItemsAfterDelete(rows, p) ==
    {IF oi.product = p THEN [oi EXCEPT !.product = NoProduct] ELSE oi : oi \in rows}

\* product.delete(): CartItem.product is on_delete=CASCADE
DeletedProduct(d, p) ==
    [d EXCEPT !.Product = [x \in (DOMAIN @) \ {p} |-> @[x]],
              !.CartItem = {ci \in @ : ci.product # p},
              !.OrderItem = OrderItemsAfterDelete(@, p)]

\* @admin_required
product_management_delete(actor, p) ==
    /\ txOwner = NoTx
    /\ IF ~IsAdmin(actor)
       THEN /\ db' = db
            /\ resp' = Response("product_management_delete", "denied")
       ELSE IF p \notin DOMAIN db.Product
       THEN /\ db' = db
            /\ resp' = Response("product_management_delete", "404")
       ELSE /\ db' = DeletedProduct(db, p)
            /\ resp' = Response("product_management_delete", "deleted")
    /\ req' = Disturb(0)
    /\ UNCHANGED <<txOwner, journal, mailed>>

\* primary keys of orders, and the status a caller may post (any string)
OrderIds == 1 .. MaxOrders
StatusInputs == Statuses \cup {"refunded"}

\* order.status = new_status; order.save(), with the totals cleared as well
OrderWithStatus_ResetTotals(order, new_status) ==
    [order EXCEPT !.status = new_status, !.total = 0]

\* order.status = new_status; order.save()
OrderWithStatus(order, new_status) == [order EXCEPT !.status = new_status]

\* order.status = new_status; order.save(), a cancellation taking back the
\* eco points the order earned
SetStatus_RevokesPoints(d, order, new_status) ==
    [d EXCEPT !.Order = (@ \ {order}) \cup {OrderWithStatus(order, new_status)},
              !.User[order.user].eco_points =
                  IF new_status = "cancelled"
                  THEN @ - order.eco_points_earned ELSE @]

\* order.status = new_status; order.save(): the Order row alone is written
SetStatus(d, order, new_status) ==
    [d EXCEPT !.Order = (@ \ {order}) \cup {OrderWithStatus(order, new_status)}]

\* order.delete() returning the units of the order's lines to the stock of
\* their products
DeletedOrder_Restock(d, order) ==
    [d EXCEPT !.Order = @ \ {order},
              !.OrderItem = {oi \in @ : oi.order # order.id},
              !.Product = [p \in DOMAIN @ |->
                  IF \E oi \in d.OrderItem : oi.order = order.id /\ oi.product = p
                  THEN [@[p] EXCEPT !.stock = @ +
                          (CHOOSE oi \in d.OrderItem :
                              oi.order = order.id /\ oi.product = p).quantity]
                  ELSE @[p]]]

\* order.delete(): OrderItem.order is on_delete=CASCADE
DeletedOrder(d, order) ==
    [d EXCEPT !.Order = @ \ {order},
              !.OrderItem = {oi \in @ : oi.order # order.id}]

\* the delete branch open to every staff member
MayDeleteOrder_Staff(actor) == IsStaffMember(actor)

\* action == 'delete' and request.user.is_admin()
MayDeleteOrder(actor) == IsAdmin(actor)

\* a status update that stores whatever string was posted
StatusAccepted_Any(new_status) == TRUE

\* if new_status in ['pending', 'processing', 'shipped', 'delivered',
\* 'cancelled']
StatusAccepted(new_status) == new_status \in Statuses

\* order_management_detail POST; action is 'update_status' or 'delete'.
\* A status outside the list and a delete by a non-admin fall through to the
\* redirect to the detail page (status_ignored, delete_ignored).
order_management_detail(actor, pk, action, new_status) ==
    /\ txOwner = NoTx
    /\ IF ~IsStaffMember(actor)
       THEN /\ db' = db
            /\ resp' = Response("order_management_detail", "denied")
       ELSE IF ~\E o \in db.Order : o.id = pk
       THEN /\ db' = db
            /\ resp' = Response("order_management_detail", "404")
       ELSE LET order == CHOOSE o \in db.Order : o.id = pk
            IN IF action = "update_status"
               THEN IF StatusAccepted(new_status)
                    THEN /\ db' = SetStatus(db, order, new_status)
                         /\ resp' = Response("order_management_detail",
                                             "status_updated")
                    ELSE /\ db' = db
                         /\ resp' = Response("order_management_detail",
                                             "status_ignored")
               ELSE IF action = "delete" /\ MayDeleteOrder(actor)
               THEN /\ db' = DeletedOrder(db, order)
                    /\ resp' = Response("order_management_detail", "deleted")
               ELSE /\ db' = db
                    /\ resp' = Response("order_management_detail",
                                        "delete_ignored")
    /\ req' = Disturb(0)
    /\ UNCHANGED <<txOwner, journal, mailed>>

\* ------------------------------------------------------- the admin console
\* OrderAdmin.has_change_permission
HasChangePermission(actor) == IsAdmin(actor) \/ Role[actor] = "supervisor"

\* OrderAdmin.has_delete_permission
HasDeletePermission(actor) == IsAdmin(actor)

\* the change form of an order (the money and eco fields are read-only) and
\* the actions mark_processing, mark_shipped, mark_delivered: the status is
\* written, by obj.save() or by queryset.update(status=...)
OrderAdmin_change(actor, pk, new_status) ==
    /\ txOwner = NoTx
    /\ new_status \in Statuses
    /\ IF ~HasChangePermission(actor) \/ ~\E o \in db.Order : o.id = pk
       THEN /\ db' = db
            /\ resp' = Response("OrderAdmin", "denied")
       ELSE /\ db' = SetStatus(db, CHOOSE o \in db.Order : o.id = pk, new_status)
            /\ resp' = Response("OrderAdmin", "changed")
    /\ req' = Disturb(0)
    /\ UNCHANGED <<txOwner, journal, mailed>>

\* the delete view of the console
OrderAdmin_delete(actor, pk) ==
    /\ txOwner = NoTx
    /\ IF ~HasDeletePermission(actor) \/ ~\E o \in db.Order : o.id = pk
       THEN /\ db' = db
            /\ resp' = Response("OrderAdmin", "denied")
       ELSE /\ db' = DeletedOrder(db, CHOOSE o \in db.Order : o.id = pk)
            /\ resp' = Response("OrderAdmin", "deleted")
    /\ req' = Disturb(0)
    /\ UNCHANGED <<txOwner, journal, mailed>>

\* ------------------------------------------------------------------ Spec
Forms == {"invalid", "valid"}

\* every request, every interleaving
Next ==
    \/ \E u \in Users, p \in Products, q \in QtyInputs : add_to_cart(u, p, q)
    \/ \E u \in Users, i \in ItemIds, a \in {"increase", "decrease"} :
          update_cart(u, i, a)
    \/ \E u \in Users, i \in ItemIds : remove_from_cart(u, i)
    \/ \E r \in Reqs, u \in Users, f \in Forms : checkout_begin(r, u, f)
    \/ \E r \in Reqs, n \in OrderNumbers : atomic_enter(r, n)
    \/ \E r \in Reqs : order_save(r)
    \/ \E r \in Reqs : order_item_create(r)
    \/ \E r \in Reqs : product_save(r)
    \/ \E r \in Reqs : user_save(r)
    \/ \E r \in Reqs : cart_clear(r)
    \/ \E r \in Reqs : send_order_confirmation_email(r)
    \/ \E r \in Reqs : email_fails(r)
    \/ \E r \in Reqs : atomic_exit(r)
    \/ \E r \in Reqs : write_fails(r)
    \/ \E a \in Actors, p \in Products, f \in EditForms :
          product_management_edit(a, p, f)
    \/ \E a \in Actors, p \in Products : product_management_delete(a, p)
    \/ \E a \in Actors, i \in OrderIds, act \in {"update_status", "delete"},
          st \in StatusInputs : order_management_detail(a, i, act, st)
    \/ \E a \in Actors, i \in OrderIds, st \in Statuses : OrderAdmin_change(a, i, st)
    \/ \E a \in Actors, i \in OrderIds : OrderAdmin_delete(a, i)
    \/ \E r \in Reqs, ident \in Identities : get_cart(r, ident)
    \/ \E r \in Reqs : create_cart(r)

Spec == Init /\ [][Next]_vars

\* no checkout request is in progress
Quiet == \A r \in Reqs : ~Active(r)

\* requests served one at a time: a request starts when none is in progress
SeqNext ==
    \/ \E u \in Users, p \in Products, q \in QtyInputs :
          Quiet /\ add_to_cart(u, p, q)
    \/ \E u \in Users, i \in ItemIds, a \in {"increase", "decrease"} :
          Quiet /\ update_cart(u, i, a)
    \/ \E u \in Users, i \in ItemIds : Quiet /\ remove_from_cart(u, i)
    \/ \E u \in Users, f \in Forms : checkout_begin(1, u, f)
    \/ \E n \in OrderNumbers : atomic_enter(1, n)
    \/ order_save(1)
    \/ order_item_create(1)
    \/ product_save(1)
    \/ user_save(1)
    \/ cart_clear(1)
    \/ send_order_confirmation_email(1)
    \/ atomic_exit(1)
    \/ write_fails(1)

SeqSpec == Init /\ [][SeqNext]_vars

\* one customer posting any integer as the quantity of product A, requests
\* one at a time
QtyNext ==
    \/ \E q \in AnyQtyInputs : Quiet /\ add_to_cart("u1", "A", q)
    \/ \E i \in ItemIds, a \in {"increase", "decrease"} :
          Quiet /\ update_cart("u1", i, a)
    \/ \E i \in ItemIds : Quiet /\ remove_from_cart("u1", i)
    \/ checkout_begin(1, "u1", "valid")
    \/ \E n \in OrderNumbers : atomic_enter(1, n)
    \/ order_save(1)
    \/ order_item_create(1)
    \/ product_save(1)
    \/ user_save(1)
    \/ cart_clear(1)
    \/ send_order_confirmation_email(1)
    \/ atomic_exit(1)

QtySpec == Init /\ [][QtyNext]_vars

\* the confirmation mail: one customer's checkouts, one request at a time,
\* where starting the mail thread may fail and any write may fail
NotifyNext ==
    \/ \E p \in Products : Quiet /\ add_to_cart("u1", p, 1)
    \/ \E f \in Forms : checkout_begin(1, "u1", f)
    \/ \E n \in OrderNumbers : atomic_enter(1, n)
    \/ order_save(1)
    \/ order_item_create(1)
    \/ product_save(1)
    \/ user_save(1)
    \/ cart_clear(1)
    \/ send_order_confirmation_email(1)
    \/ email_fails(1)
    \/ atomic_exit(1)
    \/ write_fails(1)

NotifySpec == Init /\ [][NotifyNext]_vars

\* first visits: users and anonymous sessions opening their cart, the
\* requests overlapping freely
CartNext ==
    \/ \E r \in Reqs, ident \in Identities : get_cart(r, ident)
    \/ \E r \in Reqs : create_cart(r)

CartSpec == Init /\ [][CartNext]_vars

\* the back office: one customer buying product A, and the staff editing and
\* deleting the product and handling the orders; requests one at a time.
\* The customer buys one unit at a time and every checkout draws the same
\* order number, so a second order is stored only after the first was deleted.
BackOfficeActors == {"u1", "supervisor", "admin"}

BackOfficeNext ==
    \/ Quiet /\ CartRows(db, "u1") = {} /\ add_to_cart("u1", "A", 1)
    \/ checkout_begin(1, "u1", "valid")
    \/ atomic_enter(1, "ECO-1")
    \/ order_save(1)
    \/ order_item_create(1)
    \/ product_save(1)
    \/ user_save(1)
    \/ cart_clear(1)
    \/ send_order_confirmation_email(1)
    \/ atomic_exit(1)
    \/ \E a \in BackOfficeActors, f \in {x \in EditForms : x.is_active} :
          Quiet /\ product_management_edit(a, "A", f)
    \/ \E a \in BackOfficeActors : Quiet /\ product_management_delete(a, "A")
    \/ \E a \in BackOfficeActors, i \in OrderIds, st \in StatusInputs :
          Quiet /\ order_management_detail(a, i, "update_status", st)
    \/ \E a \in BackOfficeActors, i \in OrderIds :
          Quiet /\ order_management_detail(a, i, "delete", "")
    \/ \E a \in BackOfficeActors, i \in OrderIds, st \in {"shipped", "delivered"} :
          Quiet /\ OrderAdmin_change(a, i, st)
    \/ \E a \in BackOfficeActors, i \in OrderIds : Quiet /\ OrderAdmin_delete(a, i)

BackOfficeSpec == Init /\ [][BackOfficeNext]_vars

\* the loyalty counters and what may touch them: the cart requests and the
\* checkouts of both users for product B, one request at a time, and the
\* staff's status updates and deletions of the orders
LoyaltyNext ==
    \/ \E u \in Users : Quiet /\ add_to_cart(u, "B", 1)
    \/ \E u \in Users, i \in ItemIds, a \in {"increase", "decrease"} :
          Quiet /\ update_cart(u, i, a)
    \/ \E u \in Users, i \in ItemIds : Quiet /\ remove_from_cart(u, i)
    \/ \E u \in Users, f \in Forms : Quiet /\ checkout_begin(1, u, f)
    \/ atomic_enter(1, "ECO-1")
    \/ order_save(1)
    \/ order_item_create(1)
    \/ product_save(1)
    \/ user_save(1)
    \/ cart_clear(1)
    \/ send_order_confirmation_email(1)
    \/ atomic_exit(1)
    \/ \E a \in Staff, i \in OrderIds, st \in StatusInputs :
          Quiet /\ order_management_detail(a, i, "update_status", st)
    \/ \E a \in Staff, i \in OrderIds :
          Quiet /\ order_management_detail(a, i, "delete", "")

LoyaltySpec == Init /\ [][LoyaltyNext]_vars

\* the catalogue under the staff's hands: product edits posting any eco_score
\* around the two ends of the validators' range, and product deletions
CatalogueNext ==
    \/ \E a \in Actors, p \in Products : \E f \in ScoreForms(p) :
          product_management_edit(a, p, f)
    \/ \E a \in Actors, p \in Products : product_management_delete(a, p)

CatalogueSpec == Init /\ [][CatalogueNext]_vars

\* a staff product edit racing a checkout: user u1 buys one unit of product
\* A while a supervisor edits the product, the edit committing at any point
\* outside the checkout's transaction, also after the checkout has read the
\* cart items
EditRaceNext ==
    \/ Quiet /\ add_to_cart("u1", "A", 1)
    \/ checkout_begin(1, "u1", "valid")
    \/ atomic_enter(1, "ECO-1")
    \/ order_save(1)
    \/ order_item_create(1)
    \/ product_save(1)
    \/ user_save(1)
    \/ cart_clear(1)
    \/ send_order_confirmation_email(1)
    \/ atomic_exit(1)
    \/ \E f \in {x \in EditForms : x.is_active} :
          product_management_edit("supervisor", "A", f)

EditRaceSpec == Init /\ [][EditRaceNext]_vars

\* overlapping requests on the scarce product: every interleaving of the
\* cart requests for one unit of product A and of two checkout requests
RaceNext ==
    \/ \E u \in Users : add_to_cart(u, "A", 1)
    \/ \E u \in Users, i \in ItemIds, a \in {"increase", "decrease"} :
          update_cart(u, i, a)
    \/ \E u \in Users, i \in ItemIds : remove_from_cart(u, i)
    \/ \E r \in Reqs, u \in Users, f \in Forms : checkout_begin(r, u, f)
    \/ \E r \in Reqs, n \in OrderNumbers : atomic_enter(r, n)
    \/ \E r \in Reqs : order_save(r)
    \/ \E r \in Reqs : order_item_create(r)
    \/ \E r \in Reqs : product_save(r)
    \/ \E r \in Reqs : user_save(r)
    \/ \E r \in Reqs : cart_clear(r)
    \/ \E r \in Reqs : send_order_confirmation_email(r)
    \/ \E r \in Reqs : atomic_exit(r)
    \/ \E r \in Reqs : write_fails(r)

RaceSpec == Init /\ [][RaceNext]_vars

\* one customer buys one unit of product A, whose price is any amount of
\* cents up to MaxPrice: every subtotal of the range reaches the pricing code
PricingInit ==
    \E price \in 1 .. MaxPrice :
        InitWith([Product0 EXCEPT !["A"].price = price])

PricingNext ==
    \/ add_to_cart("u1", "A", 1)
    \/ checkout_begin(1, "u1", "valid")
    \/ atomic_enter(1, "ECO-1")
    \/ order_save(1)
    \/ order_item_create(1)
    \/ product_save(1)
    \/ user_save(1)
    \/ cart_clear(1)
    \/ send_order_confirmation_email(1)
    \/ atomic_exit(1)

PricingSpec == PricingInit /\ [][PricingNext]_vars

\* ============================================================ properties

\* the units of product p on the order lines of a set of OrderItem rows
RECURSIVE UnitsOf(_, _)
UnitsOf(rows, p) ==
    IF rows = {} THEN 0
    ELSE LET oi == CHOOSE x \in rows : TRUE
         IN (IF oi.product = p THEN oi.quantity ELSE 0) + UnitsOf(rows \ {oi}, p)

\* the eco points of a set of OrderItem rows
RECURSIVE PointsOf(_)
PointsOf(rows) ==
    IF rows = {} THEN 0
    ELSE LET oi == CHOOSE x \in rows : TRUE
         IN oi.eco_score * oi.quantity + PointsOf(rows \ {oi})

\* the quantity the cart of u holds of product p
RECURSIVE QtyIn(_, _)
QtyIn(rows, p) ==
    IF rows = {} THEN 0
    ELSE LET ci == CHOOSE x \in rows : TRUE
         IN (IF ci.product = p THEN ci.quantity ELSE 0) + QtyIn(rows \ {ci}, p)

\* request r, which no other request overlapped, commits on this step
CommitsAlone(r) ==
    /\ req[r].pc = "commit"
    /\ req[r].pre # << >>
    /\ atomic_exit(r)

\* request r, which no other request overlapped, fails on this step
FailsAlone(r) ==
    /\ txOwner = r
    /\ txOwner' = NoTx
    /\ req[r].pre # << >>
    /\ resp' = Response("checkout", "error")

\* the cart of u has a line asking for more than the product's stock
HasShortLine(d, u) ==
    \E ci \in CartRows(d, u) : d.Product[ci.product].stock < ci.quantity

\* C1: two checkouts by different users, each for one unit of a product with
\* one unit in stock: at most one of them commits an order (the other is
\* rejected), and no product's stock is negative in any reachable state.
C1_OneCheckoutWins ==
    /\ \A p \in Products : db.Product[p].stock >= 0
    /\ \A o1, o2 \in db.Order :
          (/\ txOwner = NoTx
           /\ o1.user # o2.user
           /\ \E i1, i2 \in db.OrderItem :
                 /\ i1.order = o1.id /\ i2.order = o2.id
                 /\ i1.product = "A" /\ i2.product = "A"
                 /\ i1.quantity = 1 /\ i2.quantity = 1)
          => FALSE

\* C2: when a write of the atomic block fails, the request (not overlapped
\* by another) leaves orders, order items, products, users and cart items
\* exactly as they were when the request began.
C2_AllOrNothing ==
    [][\A r \in Reqs :
          FailsAlone(r) =>
              LET before == req[r].pre[1]
              IN /\ db'.Order = before.Order
                 /\ db'.OrderItem = before.OrderItem
                 /\ db'.Product = before.Product
                 /\ db'.User = before.User
                 /\ db'.CartItem = before.CartItem]_vars

\* C2 witness: the checkout of a two-line cart has failed; no order exists
\* and both lines are in the cart
C2_Witness ==
    /\ resp = Response("checkout", "error")
    /\ txOwner = NoTx
    /\ db.Order = {}
    /\ \E u \in Users : Cardinality(CartRows(db, u)) = 2

\* C3: a checkout of a cart with a line whose product has less stock than
\* the line's quantity is rejected at validation: the step reports
\* out_of_stock, never enters the atomic block and changes nothing stored.
C3_FailFast ==
    [][\A r \in Reqs, u \in Users, f \in Forms :
          (HasShortLine(db, u) /\ checkout_begin(r, u, f)) =>
              /\ resp' = Response("checkout", "out_of_stock")
              /\ req'[r].pc = "idle"
              /\ db' = db]_vars

\* C3 witness: a checkout was rejected for a cart with one line short of
\* stock and another line that could have been served
C3_Witness ==
    /\ resp = Response("checkout", "out_of_stock")
    /\ \E u \in Users :
          /\ HasShortLine(db, u)
          /\ \E ci \in CartRows(db, u) :
                db.Product[ci.product].stock >= ci.quantity

\* C4: a checkout that commits without overlap has lowered each product's
\* stock by the quantity its cart held of it when the request began (so the
\* purchased units equal the drop in stock), and has emptied the cart.
C4_StockAndCart ==
    [][\A r \in Reqs :
          CommitsAlone(r) =>
              LET before == req[r].pre[1]
                  u == req[r].user
              IN /\ \A p \in Products :
                       db'.Product[p].stock =
                           before.Product[p].stock - QtyIn(CartRows(before, u), p)
                 /\ \A p \in Products :
                       UnitsOf(db'.OrderItem \ before.OrderItem, p) =
                           before.Product[p].stock - db'.Product[p].stock
                 /\ CartRows(db', u) = {}]_vars

\* C4 witness: a checkout of two lines, one of them of two units, committed
C4_Witness ==
    /\ resp.view = "checkout" /\ resp.msg = "ok"
    /\ \E o \in db.Order :
          /\ CartRows(db, o.user) = {}
          /\ \E i1, i2 \in db.OrderItem :
                /\ i1.order = o.id /\ i2.order = o.id
                /\ i1.product # i2.product
                /\ i2.quantity = 2

ItemById(d, id) == {ci \in d.CartItem : ci.id = id}

\* C8: add_to_cart asking for more than the product's stock is rejected with
\* the out-of-stock message and changes no product and no cart item; this
\* holds of every such request, so also of any repetition of it.
C8_AddRejected ==
    [][\A u \in Users, p \in Products, q \in QtyInputs :
          (q > db.Product[p].stock /\ add_to_cart(u, p, q)) =>
              /\ resp' = Response("add_to_cart", "out_of_stock")
              /\ db'.Product = db.Product
              /\ db'.CartItem = db.CartItem]_vars

\* C8 witness: an add_to_cart was rejected for lack of stock while the cart
\* held lines
C8_Witness ==
    /\ resp = Response("add_to_cart", "out_of_stock")
    /\ db.CartItem # {}

\* C9: a cart never holds two CartItem rows for one product, and an accepted
\* add_to_cart for a product already in the cart adds the requested quantity
\* to the existing row and creates no row.
C9_OneLinePerProduct ==
    /\ [](\A c1, c2 \in db.CartItem :
            (c1.cart = c2.cart /\ c1.product = c2.product) => c1 = c2)
    /\ [][\A u \in Users, p \in Products, q \in QtyInputs :
            (/\ ExistingItems(db, u, p) # {}
             /\ q <= db.Product[p].stock
             /\ add_to_cart(u, p, q)) =>
                /\ Cardinality(db'.CartItem) = Cardinality(db.CartItem)
                /\ \A ci \in ExistingItems(db, u, p) :
                      ItemById(db', ci.id) = {[ci EXCEPT !.quantity = ci.quantity + q]}
                /\ \A ci \in db.CartItem \ ExistingItems(db, u, p) :
                      ci \in db'.CartItem]_vars

\* C9 witness: an add_to_cart for a product already in the cart was accepted
\* and its line now holds two units
C9_Witness ==
    /\ resp = Response("add_to_cart", "updated")
    /\ \E ci \in db.CartItem : ci.quantity = 2

\* C10: update_cart 'increase' adds 1 to the line only if the new quantity
\* does not exceed the product's stock and otherwise changes nothing;
\* 'decrease' takes 1 off a line above 1 and deletes a line that would reach 0.
C10_UpdateCart ==
    [][\A ci \in db.CartItem :
          /\ update_cart(ci.cart, ci.id, "increase") =>
                IF ci.quantity + 1 <= db.Product[ci.product].stock
                THEN db'.CartItem = (db.CartItem \ {ci})
                                      \cup {[ci EXCEPT !.quantity = ci.quantity + 1]}
                ELSE db'.CartItem = db.CartItem
          /\ update_cart(ci.cart, ci.id, "decrease") =>
                IF ci.quantity > 1
                THEN db'.CartItem = (db.CartItem \ {ci})
                                      \cup {[ci EXCEPT !.quantity = ci.quantity - 1]}
                ELSE db'.CartItem = db.CartItem \ {ci}]_vars

\* C10 witness: an 'increase' was refused on a line already at the stock level
C10_Witness ==
    /\ resp = Response("update_cart", "max_stock")
    /\ \E ci \in db.CartItem : ci.quantity = db.Product[ci.product].stock

\* C6: every stored order has total = subtotal + tax + shipping_cost, and
\* its stored tax is 13% of the stored subtotal rounded to the nearest cent
\* (compared in hundredths of a cent: the tax is at most half a cent away).
C6_TotalAndTax ==
    \A o \in db.Order :
        /\ o.total = o.subtotal + o.tax + o.shipping_cost
        /\ 100 * o.tax - TaxRate * o.subtotal <= 50
        /\ TaxRate * o.subtotal - 100 * o.tax <= 50

\* C6 witness: an order was stored whose 13% tax falls exactly on a half cent
C6_Witness ==
    \E o \in db.Order : (TaxRate * o.subtotal) % 100 = 50

\* C7: every stored order has shipping_cost 0 when its cart total (the stored
\* subtotal) is at least 50.00, exactly 50.00 included, and 5.00 when below.
C7_Shipping ==
    \A o \in db.Order :
        /\ o.subtotal >= 5000 => o.shipping_cost = 0
        /\ o.subtotal < 5000 => o.shipping_cost = 500

\* C7 witness: an order of exactly 50.00 was stored with free shipping
C7_Witness ==
    \E o \in db.Order : o.subtotal = 5000 /\ o.shipping_cost = 0

\* C11: every CartItem row has quantity >= 1, whatever integers add_to_cart
\* was given and whatever update_cart and remove_from_cart requests were made.
C11_QuantityPositive ==
    \A ci \in db.CartItem : ci.quantity >= 1

\* C12: no product has negative stock, in any state reached by cart
\* operations, checkouts and staff product edits that do not overlap.
C12_StockNonNegative ==
    \A p \in DOMAIN db.Product : db.Product[p].stock >= 0

\* the orders of the committed database: while a transaction is open, the
\* rows as they were before it began
CommittedOrders == IF txOwner = NoTx THEN db.Order ELSE journal[1].Order

\* C13: every confirmation notification that was dispatched names an order
\* of the committed database: none is dispatched while the order's
\* transaction is open, and none for an order that was rolled back.
C13_MailAfterCommit ==
    \A m \in mailed :
        m.kind = "confirmation" =>
            \E o \in CommittedOrders : o.order_number = m.order_number

\* C14: a failure to dispatch the confirmation notification rolls nothing
\* back and the checkout goes on to commit; the checkout that commits with
\* its notification undelivered has stored the order and a line for every
\* cart line, lowered the stock, credited the loyalty counters and emptied
\* the cart, and answers with the order's number.
C14_MailFailureSwallowed ==
    [][\A r \in Reqs :
          /\ email_fails(r) =>
                /\ db' = db
                /\ txOwner' = r
                /\ req'[r].pc = "commit"
          /\ (/\ req[r].pc = "commit"
              /\ Mail("confirmation", req[r].order.order_number) \notin mailed
              /\ atomic_exit(r)) =>
                LET before == journal[1]
                    u == req[r].user
                    number == req[r].order.order_number
                IN /\ \E o \in db'.Order :
                         /\ o.order_number = number
                         /\ o.user = u
                         /\ \A ci \in CartRows(before, u) :
                               \E oi \in db'.OrderItem :
                                  /\ oi.order = o.id
                                  /\ oi.product = ci.product
                                  /\ oi.quantity = ci.quantity
                         /\ db'.User[u].eco_points =
                               before.User[u].eco_points + o.eco_points_earned
                   /\ \A p \in Products :
                         db'.Product[p].stock =
                             before.Product[p].stock - QtyIn(CartRows(before, u), p)
                   /\ db'.User[u].total_orders = before.User[u].total_orders + 1
                   /\ CartRows(db', u) = {}
                   /\ resp' = Confirmation(number)
                   /\ txOwner' = NoTx]_vars

\* C14 witness: a checkout of two cart lines has committed and answered with
\* the order's number although no confirmation was dispatched for it
C14_Witness ==
    /\ txOwner = NoTx
    /\ resp.msg = "ok"
    /\ Mail("confirmation", resp.order_number) \notin mailed
    /\ \E o \in db.Order :
          /\ o.order_number = resp.order_number
          /\ Cardinality({oi \in db.OrderItem : oi.order = o.id}) = 2

\* C15: no user and no session key has more than one Cart row, so that
\* get_or_create_cart finds a single cart, also when first visits overlap.
C15_OneCartPerIdentity ==
    \A ident \in Identities : Cardinality(CartsOf(db, ident)) <= 1

\* the accounts of the committed database
CommittedUsers == IF txOwner = NoTx THEN db.User ELSE journal[1].User

\* C16: no step of cart operations and checkouts lowers a user's committed
\* eco_points, total_orders or co2_saved.
C16_LoyaltyMonotonic ==
    [][\A u \in Users :
          /\ CommittedUsers'[u].eco_points >= CommittedUsers[u].eco_points
          /\ CommittedUsers'[u].total_orders >= CommittedUsers[u].total_orders
          /\ CommittedUsers'[u].co2_saved >= CommittedUsers[u].co2_saved]_vars

\* the order fields that are fixed at creation
MoneyAndEco(o) ==
    <<o.subtotal, o.tax, o.shipping_cost, o.total, o.eco_points_earned,
      o.co2_saved>>

\* C17: no step changes the subtotal, tax, shipping_cost, total,
\* eco_points_earned or co2_saved of a stored order, whether it is a product
\* edit, a cart change, a checkout or a status change; and a staff
\* status-update request changes nothing but the status of orders.
C17_OrderImmutable ==
    [][/\ \A o \in db.Order : \A o2 \in db'.Order :
             o2.id = o.id => MoneyAndEco(o2) = MoneyAndEco(o)
       /\ resp'.view = "order_management_detail" =>
             \A a \in Actors, i \in OrderIds, st \in StatusInputs :
                order_management_detail(a, i, "update_status", st) =>
                   /\ \A o2 \in db'.Order :
                         \E o \in db.Order : \E x \in Statuses :
                            o2 = [o EXCEPT !.status = x]
                   /\ Cardinality(db'.Order) = Cardinality(db.Order)
                   /\ [db' EXCEPT !.Order = db.Order] = db]_vars

\* C17 witness: an order placed at the catalogue price has been shipped and
\* the product has since been repriced and rescored
C17_Witness ==
    /\ "A" \in DOMAIN db.Product
    /\ db.Product["A"].price = NewPrice
    /\ db.Product["A"].eco_score = NewEcoScore
    /\ \E o \in db.Order :
          /\ o.status = "shipped"
          /\ o.subtotal = SeedPrice["A"]
          /\ o.eco_points_earned = SeedEcoScore["A"]

\* C18: an order line is created with the product's name, price and
\* eco_score and the cart line's quantity as they are at checkout; afterwards,
\* as long as its order exists, the line keeps these four values, and its
\* product reference changes only to null, when the product is deleted,
\* which removes no order line.
C18_OrderItemSnapshot ==
    [][/\ \A r \in Reqs :
             order_item_create(r) =>
                \A oi \in db'.OrderItem \ db.OrderItem :
                   /\ oi.product_name = db.Product[oi.product].name
                   /\ oi.product_price = db.Product[oi.product].price
                   /\ oi.eco_score = db.Product[oi.product].eco_score
                   /\ \E ci \in CartRows(db, req[r].user) :
                         ci.product = oi.product /\ ci.quantity = oi.quantity
       /\ \A oi \in db.OrderItem :
             (\E o \in db'.Order : o.id = oi.order) =>
                \E oi2 \in db'.OrderItem :
                   /\ oi2.id = oi.id
                   /\ oi2.product_name = oi.product_name
                   /\ oi2.product_price = oi.product_price
                   /\ oi2.eco_score = oi.eco_score
                   /\ oi2.quantity = oi.quantity
                   /\ \/ oi2.product = oi.product
                      \/ /\ oi2.product = NoProduct
                         /\ oi.product \notin DOMAIN db'.Product]_vars

\* C18 witness: the product was deleted after an
\* order for it; the order line is there with the catalogue values and a
\* null product
C18_Witness ==
    /\ "A" \notin DOMAIN db.Product
    /\ resp = Response("product_management_delete", "deleted")
    /\ \E oi \in db.OrderItem :
          /\ oi.product = NoProduct
          /\ oi.product_name = SeedName["A"]
          /\ oi.product_price = SeedPrice["A"]
          /\ oi.eco_score = SeedEcoScore["A"]

\* C19: every order whose status is 'shipped' or 'delivered' has had a
\* notification of that status dispatched.
C19_StatusNotified ==
    \A o \in db.Order :
        o.status \in {"shipped", "delivered"} =>
            Mail(o.status, o.order_number) \in mailed

\* C20: a delete posted to order_management_detail by an actor who is not an
\* admin leaves every order and every order line in place, and so does the
\* delete view of the admin console for such an actor.
C20_OnlyAdminDeletes ==
    [][\A a \in Actors, i \in OrderIds :
          (/\ ~IsAdmin(a)
           /\ \/ order_management_detail(a, i, "delete", "")
              \/ OrderAdmin_delete(a, i)) =>
                /\ db'.Order = db.Order
                /\ db'.OrderItem = db.OrderItem]_vars

\* C20 witness: a supervisor's delete of an existing order was ignored and
\* the order and its line are still stored
C20_Witness ==
    /\ resp = Response("order_management_detail", "delete_ignored")
    /\ \E o \in db.Order : \E oi \in db.OrderItem : oi.order = o.id

\* C21: in every reachable state no two Orders share an order_number, and a
\* checkout whose generated number already exists leaves the database as it
\* was before the checkout's transaction: no Order, no OrderItem, and the
\* same Product, User and CartItem rows.
C21_UniqueNumber ==
    /\ [](\A o1 \in db.Order : \A o2 \in db.Order :
            o1.order_number = o2.order_number => o1 = o2)
    /\ [][\A r \in Reqs :
            (order_save(r) /\ DuplicateNumber(db, req[r].order.order_number))
            => /\ db' = db
               /\ db' = journal[1]
               /\ txOwner' = NoTx
               /\ req'[r].pc = "idle"
               /\ resp' = Response("checkout", "integrity_error")]_vars

\* C21: a checkout was refused on its order number while an order exists
C21_Witness ==
    /\ resp = Response("checkout", "integrity_error")
    /\ db.Order # {}
    /\ txOwner = NoTx

\* C22: a checkout request on an empty cart, and a checkout whose shipping
\* form does not validate, is answered with a message to the caller, starts
\* no transaction, and leaves the Order, OrderItem, Product, User and
\* CartItem rows as they were.
C22_RejectedCheckout ==
    [][\A r \in Reqs : \A u \in Users : \A form \in Forms :
         (/\ checkout_begin(r, u, form)
          /\ (cart_items(db, u) = << >> \/ form = "invalid"))
         => /\ resp'.view = "checkout"
            /\ resp'.msg = (IF cart_items(db, u) = << >> THEN "empty"
                            ELSE IF ~StockAvailable(cart_items(db, u))
                                 THEN "out_of_stock" ELSE "form")
            /\ req'[r].pc = "idle"
            /\ txOwner' = NoTx
            /\ db'.Order = db.Order
            /\ db'.OrderItem = db.OrderItem
            /\ db'.Product = db.Product
            /\ db'.User = db.User
            /\ db'.CartItem = db.CartItem]_vars

\* C22: a checkout of a cart with lines was answered with the form's errors
C22_Witness ==
    /\ resp = Response("checkout", "form")
    /\ db.CartItem # {}
    /\ \A r \in Reqs : req[r].pc = "idle"

\* C23: the committed eco_points, total_orders and co2_saved of a user change
\* only on the step that commits a checkout of that user; every other step
\* (add_to_cart, update_cart, remove_from_cart, a rejected checkout, an order
\* status update, an order deletion) leaves them as they were.
C23_LoyaltyFrame ==
    [][\A u \in Users :
         CommittedUsers'[u] # CommittedUsers[u]
         => \E r \in Reqs : /\ req[r].user = u
                            /\ atomic_exit(r)
                            /\ resp' = Confirmation(req[r].order.order_number)]_vars

\* C23: an admin deleted the only order and its buyer kept the loyalty
\* counters the checkout had credited
C23_Witness ==
    /\ resp = Response("order_management_detail", "deleted")
    /\ db.Order = {}
    /\ \E u \in Users : /\ db.User[u].total_orders = 1
                        /\ db.User[u].eco_points > 0
                        /\ db.User[u].co2_saved > 0

\* C24: an order is created with status pending; a staff member's status
\* update sets any of the five values whatever the current one; a posted
\* value outside the five leaves the status as it was; so the status of every
\* order is always one of the five values.
C24_StatusValues ==
    /\ [](\A o \in db.Order :
            /\ o.status \in Statuses
            /\ (txOwner = NoTx =>
                  \A a \in Staff : \A st \in Statuses :
                     ENABLED order_management_detail(a, o.id, "update_status", st)))
    /\ [][/\ \A o \in db'.Order :
               (~\E x \in db.Order : x.id = o.id) => o.status = "pending"
          /\ \A a \in Staff : \A i \in OrderIds : \A st \in StatusInputs :
               (/\ order_management_detail(a, i, "update_status", st)
                /\ \E o \in db.Order : o.id = i)
               => LET before == CHOOSE o \in db.Order : o.id = i
                      after == CHOOSE o \in db'.Order : o.id = i
                  IN /\ after.status = (IF st \in Statuses THEN st
                                        ELSE before.status)
                     /\ resp'.msg = (IF st \in Statuses THEN "status_updated"
                                     ELSE "status_ignored")]_vars

\* C24: a value outside the five was posted for a delivered order, which
\* stayed delivered
C24_Witness ==
    /\ resp = Response("order_management_detail", "status_ignored")
    /\ \E o \in db.Order : o.status = "delivered"

\* C25: after any product write the eco_score of every product lies within
\* the validators' range [1, 100]
C25_EcoScoreRange ==
    \A p \in DOMAIN db.Product :
       /\ db.Product[p].eco_score >= EcoScoreMin
       /\ db.Product[p].eco_score <= EcoScoreMax

\* the sum of product_price * quantity over a set of OrderItem rows
RECURSIVE LinesTotal(_)
LinesTotal(rows) ==
    IF rows = {} THEN 0
    ELSE LET oi == CHOOSE x \in rows : TRUE
         IN oi.product_price * oi.quantity + LinesTotal(rows \ {oi})

\* the OrderItem rows of an order
LinesOf(d, o) == {oi \in d.OrderItem : oi.order = o.id}

\* C26: every order a checkout has committed has a subtotal equal to the sum
\* of product_price * quantity over its OrderItems and eco points equal to the
\* sum of eco_score * quantity over them, whatever cart requests ran between
\* the steps of the checkout
C26_OrderMatchesLines ==
    txOwner = NoTx =>
       \A o \in db.Order :
          /\ o.subtotal = LinesTotal(LinesOf(db, o))
          /\ o.eco_points_earned = PointsOf(LinesOf(db, o))

\* C27: with no staff stock edits, whenever no transaction is open, for each
\* product the initial stock minus the current stock equals the units on all
\* OrderItems created for it, in every interleaving of the checkout requests
C27_StockConserved ==
    txOwner = NoTx =>
       \A p \in Products :
          InitStock[p] - db.Product[p].stock = UnitsOf(db.OrderItem, p)

\* C28: the product.save() of a checkout writes the stock of the purchased
\* product and nothing else: the name, price, eco_score and is_active of
\* that product, and every field of every other product, are after the save
\* what was last committed before it, also when a staff edit committed after
\* the checkout read its cart items
C28_OnlyStockWritten ==
    [][\A r \in Reqs :
         product_save(r)
         => LET pid == req[r].cart_items[req[r].idx].pid
            IN \A p \in DOMAIN db.Product :
                 /\ p \in DOMAIN db'.Product
                 /\ p # pid => db'.Product[p] = db.Product[p]
                 /\ db'.Product[p] =
                      [db.Product[p] EXCEPT !.stock = db'.Product[p].stock]]_vars

\* C29: one cart's contents become at most one order.  Under RaceSpec a cart
\* can be filled only while the single unit of product A is unsold, so a
\* user's second order can only come from a checkout POST that overlapped the
\* first one on the same cart: no user ever has more than one order, and no
\* user's total_orders exceeds 1.
C29_OneOrderPerCart ==
    txOwner = NoTx =>
       \A u \in Users :
          /\ Cardinality({o \in db.Order : o.user = u}) <= 1
          /\ db.User[u].total_orders <= 1

\* C30: a request that sets an order's status to cancelled, and a request
\* that deletes an order (staff view or admin console), leaves every product
\* as it was, stock included, and compensates nothing else: the users'
\* loyalty counters, the carts and the notifications are unchanged.
C30_NoRestock ==
    [][resp'.view \in {"order_management_detail", "OrderAdmin"} =>
         \A a \in Actors : \A i \in OrderIds :
            (\/ order_management_detail(a, i, "update_status", "cancelled")
             \/ order_management_detail(a, i, "delete", "")
             \/ OrderAdmin_delete(a, i))
            => /\ db'.Product = db.Product
               /\ db'.User = db.User
               /\ db'.CartItem = db.CartItem
               /\ mailed' = mailed]_vars

\* C30: the only order, for one unit of product A, was deleted by an admin
\* and the unit is still missing from the stock
C30_Witness ==
    /\ resp.msg = "deleted"
    /\ db.Order = {}
    /\ db.OrderItem = {}
    /\ db.next_order_id = 2
    /\ "A" \in DOMAIN db.Product
    /\ db.Product["A"].stock = InitStock["A"] - 1

====
